---- MODULE Spec2Model ----
(***************************************************************************)
(* The capture -> transcribe -> dispatch pipeline of the voice assistant:  *)
(* DiscreteApplicationRunner, AudioRecorder (with its producer, monitor    *)
(* and watchdog threads), ContextManager and CommandProcessor.             *)
(*                                                                         *)
(* Threads are indexed by the hotkey press that leads to their creation:   *)
(* press p creates at most one producer P[p], one monitor M[p], one        *)
(* watchdog W[p], one context fetch F[p] and one processing worker T[p].   *)
(* H is the thread that delivers hotkey events, R the runner's event loop. *)
(*                                                                         *)
(* Atomicity.  A region the code runs under a threading.Lock is one        *)
(* action.  Outside a lock, a step of a thread ends wherever a value it    *)
(* has read may be changed by another thread before the thread uses it or  *)
(* writes what it derived from it; consecutive operations of one thread    *)
(* between two such points are taken together.  A join with a timeout may  *)
(* return at any time, and a watchdog may see its timeout elapsed at any   *)
(* poll: time is not modelled.                                             *)
(***************************************************************************)
EXTENDS Integers, Sequences, FiniteSets, TLC

\* ----- bounds of the model
MaxPress == 2        \* hotkey presses delivered
MaxChunks == 1       \* chunks one producer delivers

MaxSupPress == 3     \* hotkey presses handled by the ApplicationManager
MaxApps == 3         \* orchestrator threads the ApplicationManager creates

Press == 1..MaxPress
SupPress == 1..MaxSupPress
Apps == 1..MaxApps
None == 0
MaxEvents == 4
MaxSets == 2
\* the key symbols, in the order of Python's string comparison
KeyOrder == <<"^", "a", "f10", "fn">>
Keys == {KeyOrder[i] : i \in DOMAIN KeyOrder}
\* hotkey settings: the defaults, and a two-key dictation hotkey
DefaultHotkeys == [dictation |-> {"fn"}, action |-> {"f10"}]
HotkeyConfigs == {DefaultHotkeys, [dictation |-> {"^", "a"}, action |-> {"f10"}]}
\* the hotkey strings of the settings, each as the sequence of its
\* "+"-separated key symbols: "fn", "^+a" and "a+^" for dictation
DefaultHotkeyStrs == [dictation |-> <<"fn">>, action |-> <<"f10">>]
\* None in the place of a hotkey string (save_settings, lines 184-187: a
\* setting without the key). A string always splits into at least one
\* symbol, so the empty sequence is free to stand for it
NoHotkeyStr == <<>>
\* "^+a+f10" is a three-key dictation hotkey; the last setting lacks the
\* dictation hotkey
HotkeyStrConfigs ==
  {DefaultHotkeyStrs,
   [dictation |-> <<"^", "a">>, action |-> <<"f10">>],
   [dictation |-> <<"a", "^">>, action |-> <<"f10">>],
   [dictation |-> <<"^", "a", "f10">>, action |-> <<"f10">>],
   [dictation |-> NoHotkeyStr, action |-> <<"f10">>]}
Modes == {"dictation", "action"}

VARIABLES
  \* --- hotkey delivery thread H (KeyboardManager -> ApplicationManager -> runner)
  hpc, hmode, presses,
  held,            \* KeyboardManager._was_hotkey_pressed
  \* --- DiscreteApplicationRunner
  mode,            \* self._mode
  action_queue,    \* self._action_queue
  rpc, rcur,       \* event loop R: position, press of the START being handled
  \* --- AudioRecorder
  is_recording,          \* self._is_recording
  stop_event,            \* self._stop_event (one Event shared by all sessions)
  audio_queue,           \* self._audio_queue: chunks <<press, k>>
  processing_callback,   \* self._processing_callback is set
  audio_detected,        \* self._audio_detected
  watchdog_thread,       \* self._watchdog_thread: None or W[p]
  watchdog_stop_event,   \* self._watchdog_stop_event: None or the Event made for W[p]
  wd_event_set,          \* wd_event_set[p]: the Event made for W[p] is set
  ppc, produced,         \* producer threads
  mpc, mbuf, mtext, mctx,\* monitor threads and the locals of their callback
  wpc,                   \* watchdog threads
  \* --- ContextManager
  current_context,       \* self._current_context
  fetch_thread,          \* self._fetch_thread: None or F[p]
  fpc, fmode,
  \* --- CommandProcessor
  cp_is_processing,      \* self._is_processing
  processing_thread,     \* self._processing_thread: None or T[p]
  tpc, tmode, tctx, tres, timer,
  \* --- status channel
  status_queue,          \* status_queue[p]: the messages put for press p, in order
  \* --- history
  startRet,              \* what start_recording returned for press p
  cbCount,               \* completion callback invocations by M[p]
  trigRet,               \* outcome of trigger_interaction for press p
  fetchRet,              \* what fetch_context_async did for press p
  wthread,               \* wait_for_context of press p: thread_to_wait
  wret,                  \* how wait_for_context returned for press p
  fetchEnd,              \* how the fetch of press p ended: "committed" or "ignored"
  \* --- ApplicationManager (the supervisor of the orchestrator thread)
  app_thread,            \* self.app_thread: None or the thread A[t]
  app_instance,          \* self.app_instance: None or the orchestrator made by A[t]
  apc,                   \* apc[t]: position of the orchestrator thread A[t]
  napps,                 \* orchestrator threads created so far
  spc, sret,             \* main thread: position, and where stop_application returns to
  spress,                \* hotkey presses handled by _handle_hotkey_press so far
  started,               \* what start_application returned in the recovery of press p
  startCalls, trigCalls, \* start_application / _trigger_interaction calls made for press p
  trigOn,                \* the orchestrator on which press p was triggered
  errs,                  \* error reports (error_occurred) made for press p
  \* KeyboardManager
  target_hotkeys,        \* _target_hotkeys: mode -> set of key symbols
  hotkey_strs,           \* _hotkey_strs: mode -> hotkey string
  kb_sets,               \* the set_hotkeys calls made: argument, result, whether it equalled _hotkey_strs
  is_hotkey_paused,      \* _is_hotkey_paused
  pressed_keys,          \* the held key symbols
  key_press_times,       \* _key_press_times: per key "none", "fresh", or "stale" (older than 5 s)
  was_hotkey_pressed,    \* _was_hotkey_pressed
  active_mode,           \* _active_mode, "none" for None
  kb_events,             \* hotkey_pressed / hotkey_released emissions in order
  kb_repeat              \* a key-down of a held key was handled while a hotkey was active

hvars == <<hpc, hmode, presses, held>>
wdvars == <<watchdog_thread, watchdog_stop_event, wd_event_set>>
recscal == <<is_recording, stop_event, audio_queue, processing_callback, audio_detected>>
recvars == <<recscal, wdvars>>
pvars == <<ppc, produced>>
mvars == <<mpc, mbuf, mtext, mctx>>
ctxvars == <<current_context, fetch_thread, fpc, fmode>>
cpvars == <<cp_is_processing, processing_thread, tpc, tmode, tctx, tres, timer>>
histvars == <<startRet, cbCount, trigRet, fetchRet>>
ctxhist == <<wthread, wret, fetchEnd>>
pipevars == <<hpc, hmode, presses, held, mode, action_queue, rpc, rcur,
          is_recording, stop_event, audio_queue, processing_callback,
          audio_detected, watchdog_thread, watchdog_stop_event, wd_event_set,
          ppc, produced, mpc, mbuf, mtext, mctx, wpc,
          current_context, fetch_thread, fpc, fmode,
          cp_is_processing, processing_thread, tpc, tmode, tctx, tres, timer,
          status_queue, startRet, cbCount, trigRet, fetchRet,
          wthread, wret, fetchEnd>>
\* ApplicationManager
supvars == <<app_thread, app_instance, apc, napps, spc, sret, spress, started,
             startCalls, trigCalls, trigOn, errs>>
\* the managers around the pipeline
hkvars == <<target_hotkeys, hotkey_strs, kb_sets, is_hotkey_paused>>
kbvars == <<target_hotkeys, hotkey_strs, kb_sets, is_hotkey_paused, pressed_keys, key_press_times, was_hotkey_pressed,
            active_mode, kb_events, kb_repeat>>
mgrvars == <<supvars, kbvars>>
vars == <<pipevars, mgrvars>>

\* ----- ContextManager.__init__: the empty snapshot
EmptyContext == [app_name |-> "None", primary_context |-> None, page_context |-> None]

\* threading.Thread.is_alive for each kind of thread
WorkerAlive(p) == tpc[p] \in {"running", "cleared"}
FetchAlive(p) == fpc[p] = "fetching"
WatchdogAlive(p) == wpc[p] \notin {"none", "done"}

\* _update_status: put_nowait of the messages on the unbounded status queue
Emit(msgs, p) == status_queue' = [status_queue EXCEPT ![p] = @ \o msgs]
Put(msg, p) == Emit(<<msg>>, p)

Init ==
  /\ hpc = "idle" /\ hmode = "dictation" /\ presses = 0 /\ held = FALSE
  /\ mode = "dictation" /\ action_queue = <<>> /\ rpc = "get" /\ rcur = None
  /\ is_recording = FALSE /\ stop_event = FALSE /\ audio_queue = <<>>
  /\ processing_callback = FALSE /\ audio_detected = FALSE
  /\ watchdog_thread = None /\ watchdog_stop_event = None
  /\ wd_event_set = [p \in Press |-> FALSE]
  /\ ppc = [p \in Press |-> "none"] /\ produced = [p \in Press |-> 0]
  /\ mpc = [p \in Press |-> "none"] /\ mbuf = [p \in Press |-> <<>>]
  /\ mtext = [p \in Press |-> "none"] /\ mctx = [p \in Press |-> EmptyContext]
  /\ wpc = [p \in Press |-> "none"]
  /\ current_context = EmptyContext /\ fetch_thread = None
  /\ fpc = [p \in Press |-> "none"] /\ fmode = [p \in Press |-> "dictation"]
  /\ cp_is_processing = FALSE /\ processing_thread = None
  /\ tpc = [p \in Press |-> "none"] /\ tmode = [p \in Press |-> "dictation"]
  /\ tctx = [p \in Press |-> EmptyContext] /\ tres = [p \in Press |-> "none"]
  /\ timer = [p \in Press |-> "none"]
  /\ status_queue = [p \in Press |-> <<>>]
  /\ startRet = [p \in Press |-> "none"] /\ cbCount = [p \in Press |-> 0]
  /\ trigRet = [p \in Press |-> "none"]
  /\ fetchRet = [p \in Press |-> "none"]
  /\ wthread = [p \in Press |-> None]
  /\ wret = [p \in Press |-> "none"]
  /\ fetchEnd = [p \in Press |-> "none"]
  /\ app_thread = None /\ app_instance = None
  /\ apc = [t \in Apps |-> "none"] /\ napps = 0
  /\ spc = "idle" /\ sret = "idle" /\ spress = 0
  /\ started = [p \in SupPress |-> "none"]
  /\ startCalls = [p \in SupPress |-> 0] /\ trigCalls = [p \in SupPress |-> 0]
  /\ trigOn = [p \in SupPress |-> None] /\ errs = [p \in SupPress |-> 0]
  /\ target_hotkeys = DefaultHotkeys
  /\ hotkey_strs = DefaultHotkeyStrs
  /\ kb_sets = <<>>
  /\ is_hotkey_paused = FALSE
  /\ pressed_keys = {}
  /\ key_press_times = [k \in Keys |-> "none"]
  /\ was_hotkey_pressed = FALSE
  /\ active_mode = "none"
  /\ kb_events = <<>>
  /\ kb_repeat = FALSE

\* ===================================================================
\* CommandProcessor
\* ===================================================================

\* is_processing (property): the flag claims busy but no live worker backs it
StaleFlag ==
  cp_is_processing /\ (processing_thread = None \/ ~WorkerAlive(processing_thread))

\* is_processing without the auto-correction of lines 36-42
is_processing_raw == cp_is_processing

\* is_processing (property): the value returned, after the auto-correction
is_processing == cp_is_processing /\ ~StaleFlag

\* process_command up to the end of the region under self._lock, called by
\* monitor M[p] with the transcript `text` (no audio argument is passed):
\* an empty command is skipped, a busy dispatcher rejects, otherwise the
\* flag is set and the worker thread object T[p] is created
ProcessCommandLocked(p, text) ==
  IF text # "text"
  THEN /\ Put("READY", p)
       /\ UNCHANGED cpvars
  ELSE IF cp_is_processing
  THEN /\ Put("BUSY", p)
       /\ UNCHANGED cpvars
  ELSE /\ cp_is_processing' = TRUE
       /\ processing_thread' = p
       /\ tpc' = [tpc EXCEPT ![p] = "new"]
       /\ tmode' = [tmode EXCEPT ![p] = mode]
       /\ tctx' = [tctx EXCEPT ![p] = mctx[p]]
       /\ UNCHANGED <<tres, timer, status_queue>>

\* process_command line 95: self._processing_thread.start(), the attribute
\* read again outside the lock. What the call does: "start" | "raise"
ThreadStartOutcome ==
  IF processing_thread = None THEN "raise"              \* AttributeError
  ELSE IF tpc[processing_thread] = "new" THEN "start"
  ELSE "raise"                                          \* RuntimeError: started twice

\* _processing_thread_target: the engine call (process_action or
\* process_dictation) returns (r = "ok") or raises (r = "err"), and the
\* finally clause clears the flag and the thread reference under the lock
T_engine(p, r) ==
  /\ tpc[p] = "running"
  /\ tres' = [tres EXCEPT ![p] = r]
  /\ cp_is_processing' = FALSE
  /\ processing_thread' = None
  /\ tpc' = [tpc EXCEPT ![p] = "cleared"]
  /\ UNCHANGED <<hvars, mode, action_queue, rpc, rcur, recvars, pvars, mvars, wpc,
                 ctxvars, tmode, tctx, timer, status_queue, histvars>>
  /\ UNCHANGED <<mgrvars, ctxhist>>

\* _processing_thread_target, lines 150-152: final_status, by the outcome r
\* of the engine call
FinalStatus_unreported(r) == IF r = "ok" THEN "Processing successful" ELSE "READY"

FinalStatus(r) == IF r = "ok" THEN "Processing successful" ELSE "Error processing"

\* _processing_thread_target, lines 149-155: the terminal status, then the
\* Timer that will put "Ready"
T_status(p) ==
  /\ tpc[p] = "cleared"
  /\ Put(FinalStatus(tres[p]), p)
  /\ timer' = [timer EXCEPT ![p] = "pending"]
  /\ tpc' = [tpc EXCEPT ![p] = "done"]
  /\ UNCHANGED <<hvars, mode, action_queue, rpc, rcur, recvars, pvars, mvars, wpc,
                 ctxvars, cp_is_processing, processing_thread, tmode, tctx, tres,
                 histvars>>
  /\ UNCHANGED <<mgrvars, ctxhist>>

\* threading.Timer(1.5, self._update_status, ["Ready"]) fires
Timer_fire(p) ==
  /\ timer[p] = "pending"
  /\ Put("READY", p)
  /\ timer' = [timer EXCEPT ![p] = "fired"]
  /\ UNCHANGED <<hvars, mode, action_queue, rpc, rcur, recvars, pvars, mvars, wpc,
                 ctxvars, cp_is_processing, processing_thread, tpc, tmode, tctx, tres,
                 histvars>>
  /\ UNCHANGED <<mgrvars, ctxhist>>

\* ===================================================================
\* DiscreteApplicationRunner.trigger_interaction / stop_interaction (thread H)
\* ===================================================================

\* trigger_interaction, lines 67-77: the is_processing read (with its
\* auto-correction), the is_recording read, and either the rejection or the
\* START action queued, taken as one step. The press is delivered when no
\* hotkey is held (KeyboardManager._on_press, lines 236-239)
H_trigger(m) ==
  /\ hpc = "idle"
  /\ ~held
  /\ presses < MaxPress
  /\ presses' = presses + 1
  /\ held' = TRUE
  /\ cp_is_processing' = is_processing
  /\ IF is_processing
     THEN /\ Put("PROCESSING_BUSY", presses + 1)
          /\ trigRet' = [trigRet EXCEPT ![presses + 1] = "busy"]
          /\ UNCHANGED <<hpc, hmode, action_queue>>
     ELSE IF is_recording
     THEN /\ Put("ALREADY_RECORDING", presses + 1)
          /\ trigRet' = [trigRet EXCEPT ![presses + 1] = "recording"]
          /\ UNCHANGED <<hpc, hmode, action_queue>>
     ELSE /\ action_queue' = Append(action_queue, [a |-> "START", p |-> presses + 1])
          /\ hpc' = "mode"
          /\ hmode' = m
          /\ UNCHANGED <<status_queue, trigRet>>
  /\ UNCHANGED <<mode, rpc, rcur, recvars, pvars, mvars, wpc,
                 ctxvars, processing_thread, tpc, tmode, tctx, tres, timer,
                 startRet, cbCount, fetchRet>>
  /\ UNCHANGED <<mgrvars, ctxhist>>

\* trigger_interaction, lines 78-79: self._mode = mode, then HOTKEY_PRESSED
H_mode ==
  /\ hpc = "mode"
  /\ mode' = hmode
  /\ Put("HOTKEY_PRESSED", presses)
  /\ trigRet' = [trigRet EXCEPT ![presses] = "queued"]
  /\ hpc' = "idle"
  /\ UNCHANGED <<hmode, presses, held, action_queue, rpc, rcur, recvars, pvars,
                 mvars, wpc, ctxvars, cpvars, startRet, cbCount, fetchRet>>
  /\ UNCHANGED <<mgrvars, ctxhist>>

\* stop_interaction: a STOP action is queued, on the release of the held hotkey
stop_interaction ==
  /\ hpc = "idle"
  /\ held
  /\ held' = FALSE
  /\ action_queue' = Append(action_queue, [a |-> "STOP", p |-> None])
  /\ UNCHANGED <<hpc, hmode, presses, mode, rpc, rcur, recvars, pvars, mvars, wpc,
                 ctxvars, cpvars, status_queue, histvars>>
  /\ UNCHANGED <<mgrvars, ctxhist>>

\* ===================================================================
\* ContextManager
\* ===================================================================

\* fetch_context_async(mode), lines 45-70 (the method runs under
\* self._lock), called by the event loop for press p: with no active window
\* the snapshot becomes "Unknown", otherwise it is reset and the fetch thread
\* F[p] is started. `window` is what get_active_window_info() found
FetchStart(p, window) ==
  IF window = "none"
  THEN /\ current_context' = [EmptyContext EXCEPT !.app_name = "Unknown"]
       /\ fetchRet' = [fetchRet EXCEPT ![p] = "unknown"]
       /\ UNCHANGED <<fetch_thread, fpc, fmode>>
  ELSE /\ current_context' = [EmptyContext EXCEPT !.app_name = "App"]
       /\ fetch_thread' = p
       /\ fpc' = [fpc EXCEPT ![p] = "fetching"]
       /\ fmode' = [fmode EXCEPT ![p] = mode]
       /\ fetchRet' = [fetchRet EXCEPT ![p] = "started"]

\* fetch_context_async with the test of line 41 left out
fetch_context_async_unguarded(p, window) == FetchStart(p, window)

\* fetch_context_async(mode), lines 40-43: a call made while the fetch thread
\* is alive does nothing
fetch_context_async(p, window) ==
  IF fetch_thread # None /\ FetchAlive(fetch_thread)
  THEN /\ fetchRet' = [fetchRet EXCEPT ![p] = "skipped"]
       /\ UNCHANGED ctxvars
  ELSE FetchStart(p, window)

\* _fetch_target with the test of line 112 left out
FetchCommit_always(p, got) ==
  current_context' =
    [current_context EXCEPT
       !.primary_context = IF got THEN p ELSE None,
       !.page_context = IF got /\ fmode[p] = "dictation" THEN p ELSE None]

\* _fetch_target, finally: the result is written only by the current fetch
\* thread. `got` says whether the engine produced a context
FetchCommit(p, got) ==
  IF fetch_thread = p
  THEN current_context' =
         [current_context EXCEPT
            !.primary_context = IF got THEN p ELSE None,
            !.page_context = IF got /\ fmode[p] = "dictation" THEN p ELSE None]
  ELSE UNCHANGED current_context

\* _fetch_target: the engine calls end (a context, None, or an exception)
\* and the result is committed
F_finish(p, got) ==
  /\ fpc[p] = "fetching"
  /\ FetchCommit(p, got)
  /\ fetchEnd' = [fetchEnd EXCEPT ![p] = IF fetch_thread = p THEN "committed" ELSE "ignored"]
  /\ fpc' = [fpc EXCEPT ![p] = "done"]
  /\ UNCHANGED <<hvars, mode, action_queue, rpc, rcur, recvars, pvars, mvars, wpc,
                 fetch_thread, fmode, cpvars, status_queue, histvars>>
  /\ UNCHANGED <<mgrvars, wthread, wret>>

\* cleanup, lines 152-163, called by the cleanup of the runner (line 215):
\* the fetch thread is detached under the lock; the join of at most 1 s
\* that follows changes nothing
CM_cleanup ==
  /\ fetch_thread' = None
  /\ UNCHANGED <<hvars, mode, action_queue, rpc, rcur, recvars, pvars, mvars, wpc,
                 current_context, fpc, fmode, cpvars, status_queue, histvars>>
  /\ UNCHANGED <<mgrvars, ctxhist>>

\* ===================================================================
\* AudioRecorder
\* ===================================================================

\* _stop_watchdog. No lock protects the two watchdog attributes; each is
\* tested and then read again to be used:
\*   sw1  if self._watchdog_stop_event:               (test)
\*   sw2      self._watchdog_stop_event.set()         (read again, set)
\*        if self._watchdog_thread and                (test)
\*   sw3     self._watchdog_thread.is_alive(): self._watchdog_thread.join(0.5)
\*        self._watchdog_thread = None; self._watchdog_stop_event = None
\* sw_next is where the caller goes: the next label, "done", or "raise"
\* (AttributeError on None, RuntimeError when a thread joins itself).
\* `self` is the caller's watchdog index, None for a caller that is no watchdog
SWLabels == {"sw1", "sw2", "sw3"}

sw_next(l, self) ==
  CASE l = "sw1" -> IF watchdog_stop_event # None THEN "sw2"
                    ELSE IF watchdog_thread # None THEN "sw3"
                    ELSE "done"
    [] l = "sw2" -> IF watchdog_stop_event = None THEN "raise"
                    ELSE IF watchdog_thread # None THEN "sw3"
                    ELSE "done"
    [] OTHER -> IF watchdog_thread = None THEN "raise"
                ELSE IF WatchdogAlive(watchdog_thread) /\ watchdog_thread = self
                THEN "raise"
                ELSE "done"

sw_effect(l, self) ==
  /\ wd_event_set' = IF l = "sw2" /\ watchdog_stop_event # None
                     THEN [wd_event_set EXCEPT ![watchdog_stop_event] = TRUE]
                     ELSE wd_event_set
  /\ watchdog_thread' = IF sw_next(l, self) = "done" THEN None ELSE watchdog_thread
  /\ watchdog_stop_event' =
       IF sw_next(l, self) = "done" THEN None ELSE watchdog_stop_event

\* stop_recording with the test of line 210 left out
StopRequested_always == TRUE

\* stop_recording, lines 210-212: is_recording is read (under the lock), and
\* when recording the stop event is set
StopRequested == is_recording

\* start_recording, lines 68-108 (the method runs under self._lock), called
\* by the event loop for press p: a session is started; _start_watchdog and
\* its _stop_watchdog included
StartSession(p) ==
  /\ stop_event' = FALSE
  /\ processing_callback' = TRUE
  /\ audio_detected' = FALSE
  /\ audio_queue' = <<>>
  /\ Put("RECORDING", p)
  /\ ppc' = [ppc EXCEPT ![p] = "run"]
  /\ mpc' = [mpc EXCEPT ![p] = "wait"]
  /\ wd_event_set' =
       [q \in Press |-> IF q = p THEN FALSE
                        ELSE IF q = watchdog_stop_event THEN TRUE
                        ELSE wd_event_set[q]]
  /\ watchdog_stop_event' = p
  /\ watchdog_thread' = p
  /\ wpc' = [wpc EXCEPT ![p] = "poll"]
  /\ is_recording' = TRUE
  /\ startRet' = [startRet EXCEPT ![p] = "true"]
  /\ UNCHANGED produced

\* start_recording with the test of lines 64-66 left out
start_recording_unguarded(p) == StartSession(p)

\* start_recording, lines 63-66: a call made while recording returns False
start_recording(p) ==
  IF is_recording
  THEN /\ startRet' = [startRet EXCEPT ![p] = "false"]
       /\ UNCHANGED <<recvars, pvars, mpc, wpc, status_queue>>
  ELSE StartSession(p)

\* --- producer P[p]: AudioSourceHandler.record_audio_stream

\* get_current_microphone() finds no device: the producer returns at once
P_no_device(p) ==
  /\ ppc[p] = "run"
  /\ produced[p] = 0
  /\ ppc' = [ppc EXCEPT ![p] = "done"]
  /\ UNCHANGED <<hvars, mode, action_queue, rpc, rcur, recvars, produced, mvars, wpc,
                 ctxvars, cpvars, status_queue, histvars>>
  /\ UNCHANGED <<mgrvars, ctxhist>>

\* one loop iteration with data: notify_audio_detected, then the chunk is queued
P_chunk(p) ==
  /\ ppc[p] = "run"
  /\ ~stop_event
  /\ produced[p] < MaxChunks
  /\ audio_detected' = TRUE
  /\ audio_queue' = Append(audio_queue, <<p, produced[p] + 1>>)
  /\ produced' = [produced EXCEPT ![p] = @ + 1]
  /\ UNCHANGED <<hvars, mode, action_queue, rpc, rcur, is_recording, stop_event,
                 processing_callback, wdvars, ppc, mvars, wpc, ctxvars, cpvars,
                 status_queue, histvars>>
  /\ UNCHANGED <<mgrvars, ctxhist>>

\* the loop condition sees the stop event set
P_stop(p) ==
  /\ ppc[p] = "run"
  /\ stop_event
  /\ ppc' = [ppc EXCEPT ![p] = "done"]
  /\ UNCHANGED <<hvars, mode, action_queue, rpc, rcur, recvars, produced, mvars, wpc,
                 ctxvars, cpvars, status_queue, histvars>>
  /\ UNCHANGED <<mgrvars, ctxhist>>

\* recorder.record raises after a chunk: the loop breaks (the stop event is
\* not set). A failure before any chunk leaves the state P_no_device leaves
P_error(p) ==
  /\ ppc[p] = "run"
  /\ ~stop_event
  /\ produced[p] > 0
  /\ ppc' = [ppc EXCEPT ![p] = "done"]
  /\ UNCHANGED <<hvars, mode, action_queue, rpc, rcur, recvars, produced, mvars, wpc,
                 ctxvars, cpvars, status_queue, histvars>>
  /\ UNCHANGED <<mgrvars, ctxhist>>

\* --- watchdog W[p]: _watchdog_target

\* the loop head and the checks of one iteration: the watchdog leaves when
\* its event attribute is gone (AttributeError) or set, when recording has
\* stopped or when audio was detected
WatchdogExits ==
  IF watchdog_stop_event = None THEN TRUE
  ELSE wd_event_set[watchdog_stop_event] \/ ~is_recording \/ audio_detected

W_exit(p) ==
  /\ wpc[p] = "poll"
  /\ WatchdogExits
  /\ wpc' = [wpc EXCEPT ![p] = "done"]
  /\ UNCHANGED <<hvars, mode, action_queue, rpc, rcur, recvars, pvars, mvars,
                 ctxvars, cpvars, status_queue, histvars>>
  /\ UNCHANGED <<mgrvars, ctxhist>>

\* lines 139-144: elapsed > self._watchdog_timeout_sec, ERROR_RECORDING is put
W_timeout(p) ==
  /\ wpc[p] = "poll"
  /\ ~WatchdogExits
  /\ Put("ERROR_RECORDING", p)
  /\ wpc' = [wpc EXCEPT ![p] = "stop"]
  /\ UNCHANGED <<hvars, mode, action_queue, rpc, rcur, recvars, pvars, mvars,
                 ctxvars, cpvars, histvars>>
  /\ UNCHANGED <<mgrvars, ctxhist>>

\* line 145: stop_recording
W_stop(p) ==
  /\ wpc[p] = "stop"
  /\ stop_event' = (stop_event \/ StopRequested)
  /\ wpc' = [wpc EXCEPT ![p] = IF StopRequested THEN "sw1" ELSE "done"]
  /\ UNCHANGED <<hvars, mode, action_queue, rpc, rcur, is_recording, audio_queue,
                 processing_callback, audio_detected, wdvars, pvars, mvars,
                 ctxvars, cpvars, status_queue, histvars>>
  /\ UNCHANGED <<mgrvars, ctxhist>>

\* stop_recording, line 213: _stop_watchdog run by the watchdog itself;
\* an exception ends the thread
W_stop_watchdog(p) ==
  /\ wpc[p] \in SWLabels
  /\ sw_effect(wpc[p], p)
  /\ wpc' = [wpc EXCEPT ![p] = IF sw_next(wpc[p], p) \in SWLabels
                               THEN sw_next(wpc[p], p) ELSE "done"]
  /\ UNCHANGED <<hvars, mode, action_queue, rpc, rcur, recscal, pvars, mvars,
                 ctxvars, cpvars, status_queue, histvars>>
  /\ UNCHANGED <<mgrvars, ctxhist>>

\* --- monitor M[p]: _monitor_target, and the completion callback
\* DiscreteApplicationRunner._process_recorded_audio that it runs

\* where the monitor goes after a step of _stop_watchdog, which it calls
\* outside any try: an exception ends the monitor thread
MonitorAfter(l) ==
  CASE sw_next(l, None) \in SWLabels -> sw_next(l, None)
    [] sw_next(l, None) = "done" -> "lock"
    [] OTHER -> "died"

\* lines 153-157: self._stop_event.wait() returns, _stop_watchdog begins
M_wake(p) ==
  /\ mpc[p] = "wait"
  /\ stop_event
  /\ sw_effect("sw1", None)
  /\ mpc' = [mpc EXCEPT ![p] = MonitorAfter("sw1")]
  /\ UNCHANGED <<hvars, mode, action_queue, rpc, rcur, recscal, pvars, mbuf, mtext,
                 mctx, wpc, ctxvars, cpvars, status_queue, histvars>>
  /\ UNCHANGED <<mgrvars, ctxhist>>

\* line 157: _stop_watchdog continues
M_stop_watchdog(p) ==
  /\ mpc[p] \in {"sw2", "sw3"}
  /\ sw_effect(mpc[p], None)
  /\ mpc' = [mpc EXCEPT ![p] = MonitorAfter(mpc[p])]
  /\ UNCHANGED <<hvars, mode, action_queue, rpc, rcur, recscal, pvars, mbuf, mtext,
                 mctx, wpc, ctxvars, cpvars, status_queue, histvars>>
  /\ UNCHANGED <<mgrvars, ctxhist>>

\* lines 160-162: under the lock, recording ends and the callback is read
M_lock(p) ==
  /\ mpc[p] = "lock"
  /\ is_recording' = FALSE
  /\ mpc' = [mpc EXCEPT ![p] = "collect"]
  /\ UNCHANGED <<hvars, mode, action_queue, rpc, rcur, stop_event, audio_queue,
                 processing_callback, audio_detected, wdvars, pvars, mbuf, mtext,
                 mctx, wpc, ctxvars, cpvars, status_queue, histvars>>
  /\ UNCHANGED <<mgrvars, ctxhist>>

\* lines 176-193: the buffer sealed from the collected chunks: empty (None)
\* when nothing was collected or save_wav_to_buffer failed
SealedBuffer(chunks, saved) == IF saved THEN chunks ELSE <<>>

\* lines 177-193: the status the monitor puts while sealing
SealStatus(chunks, saved) ==
  IF chunks = <<>> THEN <<"READY">>
  ELSE IF saved THEN <<>>
  ELSE <<"ERROR_RECORDING">>

\* _process_recorded_audio with the empty check left out
CallbackAborts_never(buffer) == FALSE

\* _process_recorded_audio, lines 141-151: the empty check
CallbackAborts(buffer) == buffer = <<>>

\* _process_recorded_audio, lines 159-161: an empty or whitespace-only
\* transcript (or a failed transcription) ends the session
TranscriptRejected(text) == text # "text"

\* lines 166-206, and the callback as far as TRANSCRIBING: the queue is drained,
\* the buffer is sealed (`saved`: save_wav_to_buffer succeeds), the callback
\* is invoked with it
M_collect(p, saved) ==
  /\ mpc[p] = "collect"
  /\ audio_queue = <<>> => saved
  /\ audio_queue' = <<>>
  /\ mbuf' = [mbuf EXCEPT ![p] = SealedBuffer(audio_queue, saved)]
  /\ IF ~processing_callback \/ CallbackAborts(SealedBuffer(audio_queue, saved))
     THEN /\ Emit(SealStatus(audio_queue, saved), p)
          /\ mpc' = [mpc EXCEPT ![p] = "done"]
     ELSE /\ Emit(SealStatus(audio_queue, saved) \o <<"TRANSCRIBING">>, p)
          /\ mpc' = [mpc EXCEPT ![p] = "transcribe"]
  /\ cbCount' = [cbCount EXCEPT ![p] = IF processing_callback THEN @ + 1 ELSE @]
  /\ UNCHANGED <<hvars, mode, action_queue, rpc, rcur, is_recording, stop_event,
                 processing_callback, audio_detected, wdvars, pvars, mtext, mctx,
                 wpc, ctxvars, cpvars, startRet, trigRet, fetchRet>>
  /\ UNCHANGED <<mgrvars, ctxhist>>

\* _process_recorded_audio, lines 172-174: after TRANSCRIBED the callback
\* waits for the context
AfterTranscribed_skip == "submit"

AfterTranscribed == "wait_ctx"

\* _process_recorded_audio, lines 174-176: what wait_for_context returned
\* (`ret`) is not looked at; the callback goes on to read the snapshot
AfterWait_abort(ret) == IF ret = "timeout" THEN "done" ELSE "get_ctx"

AfterWait(ret) == "get_ctx"

\* lines 158-170: transcribe_audio ends with a text, a blank text or an exception
M_transcribe(p, t) ==
  /\ mpc[p] = "transcribe"
  /\ mtext' = [mtext EXCEPT ![p] = t]
  /\ IF TranscriptRejected(t)
     THEN /\ Put("ERROR", p)
          /\ mpc' = [mpc EXCEPT ![p] = "done"]
     ELSE /\ Put("TRANSCRIBED", p)
          /\ mpc' = [mpc EXCEPT ![p] = AfterTranscribed]
  /\ UNCHANGED <<hvars, mode, action_queue, rpc, rcur, recvars, pvars, mbuf, mctx,
                 wpc, ctxvars, cpvars, histvars>>
  /\ UNCHANGED <<mgrvars, ctxhist>>

\* line 174 and wait_for_context, lines 131-135 and 148-150: the fetch
\* thread is read under the lock; when it is alive it is joined, else the
\* primary context of the snapshot is returned at once
M_wait_ctx(p) ==
  /\ mpc[p] = "wait_ctx"
  /\ wthread' = [wthread EXCEPT ![p] = fetch_thread]
  /\ IF fetch_thread # None /\ FetchAlive(fetch_thread)
     THEN /\ mpc' = [mpc EXCEPT ![p] = "join_ctx"]
          /\ UNCHANGED wret
     ELSE /\ mpc' = [mpc EXCEPT ![p] = AfterWait("value")]
          /\ wret' = [wret EXCEPT ![p] = "value"]
  /\ UNCHANGED <<hvars, mode, action_queue, rpc, rcur, recvars, pvars, mbuf, mtext,
                 mctx, wpc, ctxvars, cpvars, status_queue, histvars>>
  /\ UNCHANGED <<mgrvars, fetchEnd>>

\* Thread.join(timeout=5.0), line 140: returns when the thread has ended,
\* and in any case when the timeout has elapsed
JoinReturns_no_timeout(t) == ~FetchAlive(t)

JoinReturns(t) == TRUE

\* wait_for_context, lines 140-150: the join returns; with the thread still
\* alive None is returned, else the primary context of the snapshot
M_join_ctx(p) ==
  /\ mpc[p] = "join_ctx"
  /\ JoinReturns(wthread[p])
  /\ wret' = [wret EXCEPT ![p] = IF FetchAlive(wthread[p]) THEN "timeout" ELSE "value"]
  /\ mpc' = [mpc EXCEPT ![p] = AfterWait(IF FetchAlive(wthread[p]) THEN "timeout" ELSE "value")]
  /\ UNCHANGED <<hvars, mode, action_queue, rpc, rcur, recvars, pvars, mbuf, mtext,
                 mctx, wpc, ctxvars, cpvars, status_queue, histvars>>
  /\ UNCHANGED <<mgrvars, wthread, fetchEnd>>

\* get_current_context: a copy of the snapshot, under the lock
get_current_context == current_context

\* line 176
M_get_ctx(p) ==
  /\ mpc[p] = "get_ctx"
  /\ mctx' = [mctx EXCEPT ![p] = get_current_context]
  /\ mpc' = [mpc EXCEPT ![p] = "submit"]
  /\ UNCHANGED <<hvars, mode, action_queue, rpc, rcur, recvars, pvars, mbuf, mtext,
                 wpc, ctxvars, cpvars, status_queue, histvars>>
  /\ UNCHANGED <<mgrvars, ctxhist>>

\* lines 184-186: process_command(context, text, mode=self._mode), to the end
\* of its locked region
M_submit(p) ==
  /\ mpc[p] = "submit"
  /\ ProcessCommandLocked(p, mtext[p])
  /\ mpc' = [mpc EXCEPT ![p] = IF tpc'[p] = "new" THEN "start_thread" ELSE "done"]
  /\ UNCHANGED <<hvars, mode, action_queue, rpc, rcur, recvars, pvars, mbuf, mtext,
                 mctx, wpc, ctxvars, histvars>>
  /\ UNCHANGED <<mgrvars, ctxhist>>

\* process_command line 95; an exception is caught by the monitor (line 200)
M_start_thread(p) ==
  /\ mpc[p] = "start_thread"
  /\ tpc' = IF ThreadStartOutcome = "start"
            THEN [tpc EXCEPT ![processing_thread] = "running"]
            ELSE tpc
  /\ mpc' = [mpc EXCEPT ![p] = "done"]
  /\ UNCHANGED <<hvars, mode, action_queue, rpc, rcur, recvars, pvars, mbuf, mtext,
                 mctx, wpc, ctxvars, cp_is_processing, processing_thread, tmode,
                 tctx, tres, timer, status_queue, histvars>>
  /\ UNCHANGED <<mgrvars, ctxhist>>

\* ===================================================================
\* DiscreteApplicationRunner.run (thread R)
\* ===================================================================

\* lines 89-95 and _handle_start_recording, line 115: a START action is
\* taken from the queue and the context fetch is started
R_get_start(window) ==
  /\ rpc = "get"
  /\ action_queue # <<>>
  /\ Head(action_queue).a = "START"
  /\ action_queue' = Tail(action_queue)
  /\ rcur' = Head(action_queue).p
  /\ fetch_context_async(Head(action_queue).p, window)
  /\ rpc' = "start"
  /\ UNCHANGED <<hvars, mode, recvars, pvars, mvars, wpc, cpvars,
                 status_queue, startRet, cbCount, trigRet>>
  /\ UNCHANGED <<mgrvars, ctxhist>>

\* _handle_start_recording, line 118
R_start ==
  /\ rpc = "start"
  /\ start_recording(rcur)
  /\ rpc' = "get"
  /\ UNCHANGED <<hvars, mode, action_queue, rcur, produced, mbuf, mtext, mctx,
                 ctxvars, cpvars, cbCount, trigRet, fetchRet>>
  /\ UNCHANGED <<mgrvars, ctxhist>>

\* lines 89-97 and stop_recording, lines 210-212: a STOP action is taken
\* from the queue
R_get_stop ==
  /\ rpc = "get"
  /\ action_queue # <<>>
  /\ Head(action_queue).a = "STOP"
  /\ action_queue' = Tail(action_queue)
  /\ stop_event' = (stop_event \/ StopRequested)
  /\ rpc' = IF StopRequested THEN "sw1" ELSE "get"
  /\ UNCHANGED <<hvars, mode, rcur, is_recording, audio_queue,
                 processing_callback, audio_detected, wdvars, pvars, mvars, wpc,
                 ctxvars, cpvars, status_queue, histvars>>
  /\ UNCHANGED <<mgrvars, ctxhist>>

\* stop_recording, line 213: _stop_watchdog; an exception is caught by run()
R_stop_watchdog ==
  /\ rpc \in SWLabels
  /\ sw_effect(rpc, None)
  /\ rpc' = IF sw_next(rpc, None) \in SWLabels THEN sw_next(rpc, None) ELSE "get"
  /\ UNCHANGED <<hvars, mode, action_queue, rcur, recscal, pvars, mvars, wpc,
                 ctxvars, cpvars, status_queue, histvars>>
  /\ UNCHANGED <<mgrvars, ctxhist>>

\* ===================================================================
\* ApplicationManager: the supervisor of the orchestrator thread
\* ===================================================================

\* threading.Thread.is_alive for an orchestrator thread
AppAlive(t) == apc[t] \in {"init", "wire", "run"}

\* self.app_thread and self.app_thread.is_alive()
ThreadAlive == IF app_thread = None THEN FALSE ELSE AppAlive(app_thread)

\* --- orchestrator thread A[t]: _run_application_thread

\* line 371: container.application() returns the orchestrator
A_create_ok(t) ==
  /\ apc[t] = "init"
  /\ app_instance' = t
  /\ apc' = [apc EXCEPT ![t] = "wire"]
  /\ UNCHANGED <<app_thread, napps, spc, sret, spress, started, startCalls,
                 trigCalls, trigOn, errs>>
  /\ UNCHANGED <<pipevars, kbvars>>

\* lines 373-378 and 405-408: container.application() raises; the thread
\* returns through the finally clause
A_create_fail(t) ==
  /\ apc[t] = "init"
  /\ app_instance' = None
  /\ apc' = [apc EXCEPT ![t] = "dead"]
  /\ UNCHANGED <<app_thread, napps, spc, sret, spress, started, startCalls,
                 trigCalls, trigOn, errs>>
  /\ UNCHANGED <<pipevars, kbvars>>

\* lines 381-394: the queues are handed over and run() is entered
A_wire_ok(t) ==
  /\ apc[t] = "wire"
  /\ apc' = [apc EXCEPT ![t] = "run"]
  /\ UNCHANGED <<app_thread, app_instance, napps, spc, sret, spress, started,
                 startCalls, trigCalls, trigOn, errs>>
  /\ UNCHANGED <<pipevars, kbvars>>

\* lines 397-408: an exception after the orchestrator was made; the finally
\* clause clears self.app_instance, whichever orchestrator it holds
A_wire_fail(t) ==
  /\ apc[t] = "wire"
  /\ app_instance' = None
  /\ apc' = [apc EXCEPT ![t] = "dead"]
  /\ UNCHANGED <<app_thread, napps, spc, sret, spress, started, startCalls,
                 trigCalls, trigOn, errs>>
  /\ UNCHANGED <<pipevars, kbvars>>

\* --- main thread: _handle_hotkey_press, start_application, stop_application

\* _trigger_interaction, lines 484-500: trigger_interaction is called on
\* self.app_instance for press p
TriggerOn(p) ==
  /\ trigCalls' = [trigCalls EXCEPT ![p] = @ + 1]
  /\ trigOn' = [trigOn EXCEPT ![p] = app_instance]

\* _handle_hotkey_press, lines 438-440, 453-455, 470-472: where the handler
\* goes when start_application returned False
AfterStartFailed_retry == "sa_check"

AfterStartFailed == "idle"

\* _handle_hotkey_press, lines 419-473, up to the first call that waits: the
\* branch is chosen from self.app_instance and self.app_thread
S_press ==
  /\ spc = "idle"
  /\ spress < MaxSupPress
  /\ spress' = spress + 1
  /\ IF app_instance # None /\ ThreadAlive
     THEN \* line 473
          /\ TriggerOn(spress + 1)
          /\ UNCHANGED <<spc, sret>>
     ELSE IF app_instance = None /\ ThreadAlive
     THEN \* lines 445-446: stop_application joins the thread, then start
          /\ spc' = "join"
          /\ sret' = "sa_check"
          /\ UNCHANGED <<trigCalls, trigOn>>
     ELSE \* lines 425-430, 462-463: no live thread; stop_application, where
          \* it is called, finds nothing to stop
          /\ spc' = "sa_check"
          /\ UNCHANGED <<sret, trigCalls, trigOn>>
  /\ UNCHANGED <<app_thread, app_instance, apc, napps, started, startCalls, errs>>
  /\ UNCHANGED <<pipevars, kbvars>>

\* stop_application called on its own (closeEvent, the stop button), lines
\* 281-297, with a live thread: the events are set, which run() does not
\* read (its loop tests the _stop_event of the runner), and the thread is
\* joined
S_stop ==
  /\ spc = "idle"
  /\ ThreadAlive
  /\ spc' = "join"
  /\ sret' = "idle"
  /\ UNCHANGED <<app_thread, app_instance, apc, napps, spress, started, startCalls,
                 trigCalls, trigOn, errs>>
  /\ UNCHANGED <<pipevars, kbvars>>

\* stop_application, lines 298-307: the join has returned (the thread ended
\* or the 2 s elapsed); both references are cleared
S_join_end ==
  /\ spc = "join"
  /\ app_thread' = None
  /\ app_instance' = None
  /\ spc' = sret
  /\ UNCHANGED <<apc, napps, sret, spress, started, startCalls, trigCalls, trigOn, errs>>
  /\ UNCHANGED <<pipevars, kbvars>>

\* start_application, lines 216-231: the state check. With a live thread and
\* no orchestrator stop_application is called (line 221); with both, STARTED
\* is emitted and False returned; the stop_application of line 231 finds no
\* live thread
S_sa_check ==
  /\ spc = "sa_check"
  /\ startCalls' = [startCalls EXCEPT ![spress] = @ + 1]
  /\ IF ThreadAlive /\ app_instance = None
     THEN /\ spc' = "join"
          /\ sret' = "sa_create"
          /\ UNCHANGED started
     ELSE IF ThreadAlive
     THEN /\ started' = [started EXCEPT ![spress] = "false"]
          /\ spc' = AfterStartFailed
          /\ UNCHANGED sret
     ELSE /\ spc' = "sa_create"
          /\ UNCHANGED <<sret, started>>
  /\ UNCHANGED <<app_thread, app_instance, apc, napps, spress, trigCalls, trigOn, errs>>
  /\ UNCHANGED <<pipevars, kbvars>>

\* start_application, lines 234-279: the settings and hotkeys are invalid
\* (error_occurred, False), or the thread is created and started (True), or
\* an exception is raised before the thread exists (error_occurred, ERROR,
\* stop_application, False)
S_sa_create(outcome) ==
  /\ spc = "sa_create"
  /\ IF outcome = "ok"
     THEN /\ napps < MaxApps
          /\ napps' = napps + 1
          /\ app_thread' = napps + 1
          /\ apc' = [apc EXCEPT ![napps + 1] = "init"]
          /\ started' = [started EXCEPT ![spress] = "true"]
          /\ spc' = "retry"
          /\ UNCHANGED errs
     ELSE /\ errs' = [errs EXCEPT ![spress] = @ + 1]
          /\ started' = [started EXCEPT ![spress] = "false"]
          /\ spc' = AfterStartFailed
          /\ UNCHANGED <<app_thread, apc, napps>>
  /\ UNCHANGED <<app_instance, sret, spress, startCalls, trigCalls, trigOn>>
  /\ UNCHANGED <<pipevars, kbvars>>

\* _handle_hotkey_press, lines 431-437 (449-452, 465-469): after a start
\* that returned True the trigger is made again if self.app_instance and
\* self.app_thread are set
S_retry ==
  /\ spc = "retry"
  /\ IF app_instance # None /\ app_thread # None
     THEN TriggerOn(spress)
     ELSE UNCHANGED <<trigCalls, trigOn>>
  /\ spc' = "idle"
  /\ UNCHANGED <<app_thread, app_instance, apc, napps, sret, spress, started,
                 startCalls, errs>>
  /\ UNCHANGED <<pipevars, kbvars>>

\* ===================================================================

\* ===================================================================
\* KeyboardManager: key events to hotkey press and release events
\* ===================================================================

\* get_pressed_keys, lines 328-338, for a held set ks: the symbols sorted,
\* at most three
PressedKeysOf(ks) ==
  {KeyOrder[i] : i \in {j \in DOMAIN KeyOrder :
      /\ KeyOrder[j] \in ks
      /\ Cardinality({h \in 1..j : KeyOrder[h] \in ks}) <= 3}}

get_pressed_keys == PressedKeysOf(pressed_keys)

\* check_hotkey_match, lines 54-69, for a held set ks: the first mode of
\* _target_hotkeys (dictation, then action) whose combination the keys equal
check_hotkey_match(ks) ==
  IF is_hotkey_paused THEN "none"
  ELSE IF PressedKeysOf(ks) = target_hotkeys.dictation THEN "dictation"
  ELSE IF PressedKeysOf(ks) = target_hotkeys.action THEN "action"
  ELSE "none"

\* lines 237 and 270: a match is announced only when no hotkey is active
ShouldEmitPress_refire(mode_match) == mode_match # "none"

ShouldEmitPress(mode_match) == mode_match # "none" /\ ~was_hotkey_pressed

\* lines 239-241, 271-273
EmitPressed(mode_match) ==
  /\ was_hotkey_pressed' = TRUE
  /\ active_mode' = mode_match
  /\ kb_events' = Append(kb_events, <<"press", mode_match>>)

\* the release emitted with _was_hotkey_pressed left True
EmitReleased_stays ==
  /\ kb_events' = Append(kb_events, <<"release", active_mode>>)
  /\ UNCHANGED <<was_hotkey_pressed, active_mode>>

\* lines 289-292, 309-312
EmitReleased ==
  /\ was_hotkey_pressed' = FALSE
  /\ kb_events' = Append(kb_events, <<"release", active_mode>>)
  /\ active_mode' = "none"

\* _on_press, lines 223-253. The fn key (keycode 63) arrives as release
\* events only (lines 263-266)
K_press(k) ==
  /\ k # "fn"
  /\ Len(kb_events) < MaxEvents
  /\ pressed_keys' = pressed_keys \cup {k}
  /\ key_press_times' = [key_press_times EXCEPT ![k] = "fresh"]
  /\ IF ShouldEmitPress(check_hotkey_match(pressed_keys \cup {k}))
     THEN EmitPressed(check_hotkey_match(pressed_keys \cup {k}))
     ELSE UNCHANGED <<was_hotkey_pressed, active_mode, kb_events>>
  /\ kb_repeat' = (kb_repeat \/ (k \in pressed_keys /\ was_hotkey_pressed))
  /\ UNCHANGED hkvars
  /\ UNCHANGED <<pipevars, supvars>>

\* _on_release, lines 263-282: fn not held, the event counts as its press
K_fn_down ==
  /\ "fn" \notin pressed_keys
  /\ Len(kb_events) < MaxEvents
  /\ pressed_keys' = pressed_keys \cup {"fn"}
  /\ IF ShouldEmitPress(check_hotkey_match(pressed_keys \cup {"fn"}))
     THEN /\ EmitPressed(check_hotkey_match(pressed_keys \cup {"fn"}))
          /\ UNCHANGED key_press_times
     ELSE /\ key_press_times' = [key_press_times EXCEPT !["fn"] = "fresh"]
          /\ UNCHANGED <<was_hotkey_pressed, active_mode, kb_events>>
  /\ UNCHANGED <<hkvars, kb_repeat>>
  /\ UNCHANGED <<pipevars, supvars>>

\* _on_release, lines 283-300: fn held, the event counts as its release; an
\* active hotkey is released without a look at the other keys
K_fn_up ==
  /\ "fn" \in pressed_keys
  /\ Len(kb_events) < MaxEvents
  /\ pressed_keys' = pressed_keys \ {"fn"}
  /\ key_press_times' = [key_press_times EXCEPT !["fn"] = "none"]
  /\ IF was_hotkey_pressed
     THEN EmitReleased
     ELSE UNCHANGED <<was_hotkey_pressed, active_mode, kb_events>>
  /\ UNCHANGED <<hkvars, kb_repeat>>
  /\ UNCHANGED <<pipevars, supvars>>

\* _on_release, lines 302-320: any other key
K_release(k) ==
  /\ k # "fn"
  /\ Len(kb_events) < MaxEvents
  /\ pressed_keys' = pressed_keys \ {k}
  /\ key_press_times' = [key_press_times EXCEPT ![k] = "none"]
  /\ IF was_hotkey_pressed /\ check_hotkey_match(pressed_keys \ {k}) = "none"
     THEN EmitReleased
     ELSE UNCHANGED <<was_hotkey_pressed, active_mode, kb_events>>
  /\ UNCHANGED <<hkvars, kb_repeat>>
  /\ UNCHANGED <<pipevars, supvars>>

\* set(hotkey_str.split("+")), line 159
SplitKeys(str) == {str[i] : i \in DOMAIN str}

\* set_hotkeys, lines 156-161: the loop over the settings raises at a
\* missing hotkey string (None has no split)
SplitFails(hotkeys) == \E m \in DOMAIN hotkeys : hotkeys[m] = NoHotkeyStr

\* set_hotkeys with the held-hotkey state reset on every call
K_set_hotkeys_reset(hotkeys) ==
  /\ Len(kb_sets) < MaxSets
  /\ kb_sets' = Append(kb_sets, [arg |-> hotkeys, ret |-> TRUE,
                                 same |-> (hotkey_strs = hotkeys)])
  /\ hotkey_strs' = hotkeys
  /\ target_hotkeys' = [m \in DOMAIN hotkeys |-> SplitKeys(hotkeys[m])]
  /\ was_hotkey_pressed' = FALSE
  /\ active_mode' = "none"
  /\ UNCHANGED <<is_hotkey_paused, pressed_keys, key_press_times, kb_events, kb_repeat>>
  /\ UNCHANGED <<pipevars, supvars>>

\* set_hotkeys, lines 143-170: a setting equal to _hotkey_strs returns True
\* at line 151; any other is stored (line 154) and then split into the
\* target key sets, which are assigned at line 163 unless the loop raised
\* (the call then returns False, line 170). The listener state is not touched
K_set_hotkeys(hotkeys) ==
  /\ Len(kb_sets) < MaxSets
  /\ kb_sets' = Append(kb_sets,
       [arg |-> hotkeys,
        ret |-> (hotkey_strs = hotkeys \/ ~SplitFails(hotkeys)),
        same |-> (hotkey_strs = hotkeys)])
  /\ IF hotkey_strs = hotkeys
     THEN UNCHANGED <<hotkey_strs, target_hotkeys>>
     ELSE /\ hotkey_strs' = hotkeys
          /\ IF SplitFails(hotkeys)
             THEN UNCHANGED target_hotkeys
             ELSE target_hotkeys' = [m \in DOMAIN hotkeys |-> SplitKeys(hotkeys[m])]
  /\ UNCHANGED <<is_hotkey_paused, pressed_keys, key_press_times, was_hotkey_pressed,
                 active_mode, kb_events, kb_repeat>>
  /\ UNCHANGED <<pipevars, supvars>>

\* pause_hotkey_triggers, lines 102-104
K_pause ==
  /\ ~is_hotkey_paused
  /\ is_hotkey_paused' = TRUE
  /\ UNCHANGED <<target_hotkeys, hotkey_strs, kb_sets, pressed_keys, key_press_times,
                 was_hotkey_pressed, active_mode, kb_events, kb_repeat>>
  /\ UNCHANGED <<pipevars, supvars>>

\* resume_hotkey_triggers, lines 106-108
K_resume ==
  /\ is_hotkey_paused
  /\ is_hotkey_paused' = FALSE
  /\ UNCHANGED <<target_hotkeys, hotkey_strs, kb_sets, pressed_keys, key_press_times,
                 was_hotkey_pressed, active_mode, kb_events, kb_repeat>>
  /\ UNCHANGED <<pipevars, supvars>>

\* five seconds have passed since key k was recorded (line 135)
K_age(k) ==
  /\ key_press_times[k] = "fresh"
  /\ key_press_times' = [key_press_times EXCEPT ![k] = "stale"]
  /\ UNCHANGED <<hkvars, pressed_keys, was_hotkey_pressed, active_mode,
                 kb_events, kb_repeat>>
  /\ UNCHANGED <<pipevars, supvars>>

\* _check_stuck_keys, lines 129-141, with a key to clear
K_sweep ==
  /\ \E k \in Keys : key_press_times[k] = "stale"
  /\ pressed_keys' = {k \in pressed_keys : key_press_times[k] # "stale"}
  /\ key_press_times' = [k \in Keys |->
       IF key_press_times[k] = "stale" THEN "none" ELSE key_press_times[k]]
  /\ UNCHANGED <<hkvars, was_hotkey_pressed, active_mode, kb_events, kb_repeat>>
  /\ UNCHANGED <<pipevars, supvars>>

\* what the environment may answer
Windows == {"none", "app"}              \* get_active_window_info
Transcripts == {"text", "blank", "raise"}  \* transcribe_audio
EngineResults == {"ok", "err"}          \* process_action / process_dictation
StartOutcomes == {"ok", "invalid", "raise"} \* validate_settings, Thread.start

\* the threads, grouped
Hotkey(ms) ==
  \/ \E m \in ms : H_trigger(m)
  \/ H_mode
  \/ stop_interaction

Loop(ws) ==
  \/ \E w \in ws : R_get_start(w)
  \/ R_start
  \/ R_get_stop
  \/ R_stop_watchdog

Producer ==
  \/ \E p \in Press : P_chunk(p)
  \/ \E p \in Press : P_stop(p)

ProducerFails ==
  \/ \E p \in Press : P_no_device(p)
  \/ \E p \in Press : P_error(p)

Watchdog ==
  \/ \E p \in Press : W_exit(p)
  \/ \E p \in Press : W_timeout(p)
  \/ \E p \in Press : W_stop(p)
  \/ \E p \in Press : W_stop_watchdog(p)

Monitor ==
  \/ \E p \in Press : M_wake(p)
  \/ \E p \in Press : M_stop_watchdog(p)
  \/ \E p \in Press : M_lock(p)

Callback(saves, ts) ==
  \/ \E p \in Press, saved \in saves : M_collect(p, saved)
  \/ \E p \in Press, t \in ts : M_transcribe(p, t)

Submit ==
  \/ \E p \in Press : M_wait_ctx(p)
  \/ \E p \in Press : M_join_ctx(p)
  \/ \E p \in Press : M_get_ctx(p)
  \/ \E p \in Press : M_submit(p)
  \/ \E p \in Press : M_start_thread(p)

Fetch == \E p \in Press, got \in BOOLEAN : F_finish(p, got)

Worker(rs) == \E p \in Press, r \in rs : T_engine(p, r)

WorkerStatus ==
  \/ \E p \in Press : T_status(p)
  \/ \E p \in Press : Timer_fire(p)

AppThread ==
  \/ \E t \in Apps : A_create_ok(t)
  \/ \E t \in Apps : A_create_fail(t)
  \/ \E t \in Apps : A_wire_ok(t)
  \/ \E t \in Apps : A_wire_fail(t)

Supervisor ==
  \/ S_press
  \/ S_stop
  \/ S_join_end
  \/ S_sa_check
  \/ \E o \in StartOutcomes : S_sa_create(o)
  \/ S_retry

Keyboard ==
  \/ \E k \in Keys : K_press(k)
  \/ K_fn_down
  \/ K_fn_up
  \/ \E k \in Keys : K_release(k)
  \/ \E k \in Keys : K_age(k)
  \/ K_sweep
  \/ \E hotkeys \in HotkeyStrConfigs : K_set_hotkeys(hotkeys)
  \/ K_pause
  \/ K_resume

\* The whole pipeline
Next ==
  \/ Keyboard
  \/ CM_cleanup
  \/ AppThread
  \/ Supervisor
  \/ Hotkey(Modes)
  \/ Loop(Windows)
  \/ Producer
  \/ ProducerFails
  \/ Watchdog
  \/ Monitor
  \/ Callback(BOOLEAN, Transcripts)
  \/ Submit
  \/ Fetch
  \/ Worker(EngineResults)
  \/ WorkerStatus

Spec == Init /\ [][Next]_vars

\* The sub-specifications below schedule part of the threads and let the
\* environment answer from part of its answers. Every behaviour of one of
\* them is a behaviour of Spec in which the other threads never run.

\* Dispatch: the sessions up to the end of the engine call. The context
\* fetch never completes, the watchdog never sees its timeout elapsed, the
\* producer does not fail, the terminal statuses are not put
NextDispatch ==
  \/ Hotkey({"dictation"})
  \/ Loop({"app"})
  \/ Producer
  \/ \E p \in Press : W_exit(p)
  \/ Monitor
  \/ Callback(BOOLEAN, Transcripts)
  \/ Submit
  \/ Worker(EngineResults)

SpecDispatch == Init /\ [][NextDispatch]_vars

\* Worker: the sessions that deliver audio and a transcript, up to the
\* "Ready" put by the Timer of the worker thread. The context fetch never
\* completes, the watchdog never sees its timeout elapsed, the producer
\* does not fail
NextWorker ==
  \/ Hotkey({"dictation"})
  \/ Loop({"app"})
  \/ Producer
  \/ \E p \in Press : W_exit(p)
  \/ Monitor
  \/ Callback({TRUE}, {"text"})
  \/ Submit
  \/ Worker(EngineResults)
  \/ WorkerStatus

SpecWorker == Init /\ [][NextWorker]_vars

\* Capture: silent sessions (no producer delivers a chunk) up to the
\* completion callback, with the watchdog seeing its timeout elapsed. The
\* callback stops at its empty check
NextCapture ==
  \/ Hotkey({"dictation"})
  \/ Loop({"app"})
  \/ \E p \in Press : P_no_device(p)
  \/ \E p \in Press : P_stop(p)
  \/ Watchdog
  \/ Monitor
  \/ \E p \in Press : M_collect(p, TRUE)

SpecCapture == Init /\ [][NextCapture]_vars

\* Timeout: a session whose hotkey stays held, up to the completion
\* callback, with the producer delivering chunks and the watchdog seeing its
\* timeout elapsed. The callback is followed to the start of the
\* transcription
NextTimeout ==
  \/ H_trigger("dictation")
  \/ H_mode
  \/ R_get_start("app")
  \/ R_start
  \/ Producer
  \/ Watchdog
  \/ Monitor
  \/ \E p \in Press : M_collect(p, TRUE)

SpecTimeout == Init /\ [][NextTimeout]_vars

\* Context: the sessions up to the context snapshot taken by the callback,
\* with the context fetches completing. The watchdog never sees its timeout
\* elapsed, the producer does not fail, the dispatcher is never reached
NextContext ==
  \/ Hotkey({"dictation"})
  \/ Loop(Windows)
  \/ Producer
  \/ \E p \in Press : W_exit(p)
  \/ Monitor
  \/ Callback({TRUE}, {"text"})
  \/ \E p \in Press : M_wait_ctx(p)
  \/ \E p \in Press : M_join_ctx(p)
  \/ \E p \in Press : M_get_ctx(p)
  \/ Fetch

SpecContext == Init /\ [][NextContext]_vars

\* Teardown: the context manager with its cleanup, which the cleanup of the
\* runner calls from another thread. The event loop handles the presses and
\* the fetch threads run; the threads of the recorder are not scheduled
NextTeardown ==
  \/ Hotkey(Modes)
  \/ Loop(Windows)
  \/ Fetch
  \/ CM_cleanup

SpecTeardown == Init /\ [][NextTeardown]_vars

\* Supervisor: the hotkey presses handled by the ApplicationManager and the
\* orchestrator threads it creates. The pipeline inside the orchestrator
\* does not run
NextSupervisor ==
  \/ AppThread
  \/ Supervisor

SpecSupervisor == Init /\ [][NextSupervisor]_vars

\* Keyboard: the key events handled by the KeyboardManager and its sweep
NextKeyboard == Keyboard

SpecKeyboard == Init /\ [][NextKeyboard]_vars

\* ===================================================================
\* Pipeline states of a session (the session of press p)
\* ===================================================================
Recording(p) == mpc[p] \in {"wait", "sw2", "sw3", "lock", "collect"}
Transcribing(p) == mpc[p] = "transcribe"
AwaitingContext(p) == mpc[p] \in {"wait_ctx", "join_ctx", "get_ctx"}
\* the engine call of T[p] is pending or running
InFlight(p) == tpc[p] \in {"new", "running"}
Dispatching(p) == mpc[p] \in {"submit", "start_thread"} \/ InFlight(p)
NonIdle(p) == Recording(p) \/ Transcribing(p) \/ AwaitingContext(p) \/ Dispatching(p)

\* the step in which thread H runs trigger_interaction for press p
TriggerStep(p) == hpc = "idle" /\ presses = p - 1 /\ presses' = p
\* the step in which monitor M[p] runs the locked region of process_command
SubmitStep(p) == mpc[p] = "submit" /\ mpc'[p] # "submit"

\* ===================================================================
\* Claims
\* ===================================================================

\* C1: at most one processing-engine call (process_action or
\* process_dictation) is running at any instant.
C1_OneEngineCall ==
  \A p, q \in Press : (tpc[p] = "running" /\ tpc[q] = "running") => p = q

\* C2: at most one session is in a non-Idle pipeline state at any time, and
\* a press that arrives while a session is non-Idle is rejected, not queued.
C2_OneSessionNonIdle ==
  \A p, q \in Press : (NonIdle(p) /\ NonIdle(q)) => p = q

\* C3: every start_recording that returned True leads to exactly one
\* invocation of the completion callback: never more than one, and one once
\* the monitor thread of the session has ended.
C3_CallbackExactlyOnce ==
  \A p \in Press :
    startRet[p] = "true"
      => /\ cbCount[p] <= 1
         /\ mpc[p] \in {"done", "died"} => cbCount[p] = 1

FetchCallStep(q) == rpc = "get" /\ rpc' = "start" /\ rcur' = q

C5_BusyRejects ==
  [][\A p \in Press :
       (SubmitStep(p) /\ \E q \in Press : q # p /\ InFlight(q))
         => /\ tpc'[p] = "none"
            /\ status_queue'[p] = Append(status_queue[p], "BUSY")
            /\ \A q \in Press : tpc'[q] = tpc[q]]_vars

\* C6: a trigger_interaction call made while the dispatcher is processing or
\* capture is active is rejected: a busy status is put, no START action is
\* queued, the stored mode is unchanged and the worker in flight is untouched.
C6_BusyTriggerRejected ==
  [][\A p \in Press :
       (TriggerStep(p) /\ (is_recording \/ \E q \in Press : InFlight(q)))
         => /\ trigRet'[p] \in {"busy", "recording"}
            /\ status_queue'[p] \in {<<"PROCESSING_BUSY">>, <<"ALREADY_RECORDING">>}
            /\ action_queue' = action_queue
            /\ mode' = mode /\ hpc' = "idle"
            /\ tpc' = tpc]_vars

\* C7: a start_recording call made while a session is recording returns
\* False and leaves the recorder, its threads, its queue and the status
\* channel as they are.
C7_StartWhileRecordingIsNoop ==
  [][(rpc = "start" /\ rpc' = "get" /\ is_recording)
       => /\ startRet'[rcur] = "false"
          /\ UNCHANGED <<recvars, pvars, mpc, mbuf, wpc, status_queue, cbCount>>]_vars

C7_Witness ==
  \E p, q \in Press :
    /\ startRet[p] = "true" /\ startRet[q] = "false"
    /\ mbuf[p] # <<>>

\* the watchdog W[p] has seen its timeout elapsed
TimedOut(p) ==
  \/ wpc[p] \in {"stop"} \cup SWLabels
  \/ wpc[p] = "done" /\ \E i \in DOMAIN status_queue[p] : status_queue[p][i] = "ERROR_RECORDING"

\* C8: when no chunk is ever delivered, a session whose watchdog has seen the
\* timeout elapsed has ERROR_RECORDING put exactly once, its monitor ends
\* the session (it does not die), and transcription is not reached.
C8_SilentSessionTimesOut ==
  \A p \in Press :
    (TimedOut(p) /\ \A q \in Press : produced[q] = 0)
      => /\ Cardinality({i \in DOMAIN status_queue[p] :
                           status_queue[p][i] = "ERROR_RECORDING"}) = 1
         /\ mpc[p] \notin {"transcribe", "died"}
         /\ mtext[p] = "none"

\* C9: while the engine call of a worker is running, the in-flight flag is
\* True and a read of is_processing returns True.
C9_FlagHeldWhileRunning ==
  \A p \in Press : tpc[p] = "running" => (cp_is_processing /\ is_processing)

\* C10: a session whose sealed buffer is empty invokes neither transcription
\* nor the processing engine, and a session whose transcript is empty,
\* whitespace-only or failed does not invoke the processing engine.
C10_EmptyInputShortCircuit ==
  \A p \in Press :
    /\ (cbCount[p] > 0 /\ mbuf[p] = <<>>)
         => (mpc[p] = "done" /\ mtext[p] = "none" /\ tpc[p] = "none")
    /\ mtext[p] \in {"blank", "raise"} => (mpc[p] = "done" /\ tpc[p] = "none")

C10_Witness ==
  \E p, q \in Press :
    /\ cbCount[p] = 1 /\ mbuf[p] = <<>> /\ mpc[p] = "done"
    /\ mtext[q] = "blank" /\ mpc[q] = "done"

\* the statuses that report a rejection or a failure
TerminalStatuses ==
  {"PROCESSING_BUSY", "ALREADY_RECORDING", "BUSY", "ERROR_RECORDING", "ERROR",
   "Error processing"}

\* how many terminal statuses were put for press p
TerminalCount(p) ==
  Cardinality({i \in DOMAIN status_queue[p] : status_queue[p][i] \in TerminalStatuses})

\* every thread created for press p has ended and no Timer of it is pending
SessionOver(p) ==
  /\ mpc[p] = "done"
  /\ wpc[p] \in {"none", "done"}
  /\ tpc[p] \in {"none", "done"}
  /\ timer[p] # "pending"

\* the session of press p failed: watchdog timeout, empty input,
\* transcription failure or processing failure
SessionFailed(p) ==
  \/ TimedOut(p)
  \/ cbCount[p] > 0 /\ mbuf[p] = <<>>
  \/ mtext[p] \in {"blank", "raise"}
  \/ tres[p] = "err"

\* C11: a rejected press has exactly one terminal status put for it, and a
\* failed session, once all its threads have ended, has had at most one
\* terminal status put and READY put after it, so that the last status of
\* the session is READY.
C11_FailureEndsReady ==
  \A p \in Press :
    /\ trigRet[p] \in {"busy", "recording"}
         => (Len(status_queue[p]) = 1 /\ TerminalCount(p) = 1)
    /\ (SessionFailed(p) /\ SessionOver(p))
         => /\ TerminalCount(p) <= 1
            /\ status_queue[p][Len(status_queue[p])] = "READY"

\* the handler of press p has returned
HandlerDone(p) == spress > p \/ (spress = p /\ spc = "idle")

\* C12: for one hotkey press _handle_hotkey_press calls start_application at
\* most once and _trigger_interaction at most once; when start_application
\* returned False, an error was reported, no trigger was made, and the
\* handler makes no further attempt.
C12_SingleRecoveryAttempt ==
  \A p \in SupPress :
    /\ startCalls[p] <= 1
    /\ trigCalls[p] <= 1
    /\ started[p] = "false" => (errs[p] >= 1 /\ trigCalls[p] = 0 /\ HandlerDone(p))

C12_Witness ==
  \E p \in SupPress :
    started[p] = "false" /\ startCalls[p] = 1 /\ errs[p] = 1 /\ HandlerDone(p)

\* C13: when the recovery start of a press returned True, the handler of the
\* press has, when it returns, made the trigger exactly once, on the
\* orchestrator of the thread it started.
C13_RetryAfterRecovery ==
  \A p \in SupPress :
    (spress = p /\ spc = "idle" /\ started[p] = "true")
      => (trigCalls[p] = 1 /\ trigOn[p] = napps)

\* a key event is handled by _on_press or _on_release
KeyEventStep ==
  \/ \E k \in Keys : K_press(k)
  \/ K_fn_down
  \/ K_fn_up
  \/ \E k \in Keys : K_release(k)

\* C14: no second press event is emitted before a release event: in the
\* emitted events every press but the last is directly followed by a
\* release, whatever key-down events arrive for keys already held.
C14_NoSecondPressBeforeRelease ==
  \A i \in DOMAIN kb_events :
    (kb_events[i][1] = "press" /\ i < Len(kb_events))
      => kb_events[i + 1] = <<"release", kb_events[i][2]>>

C14_Witness ==
  /\ kb_repeat
  /\ Len(kb_events) >= 3
  /\ kb_events[1][1] = "press" /\ kb_events[3][1] = "press"

\* C15: when a hotkey is active and the held keys equal its combination, a
\* key press or key release after which the held keys no longer equal the
\* combination emits the release event of that mode in the same step.
C15_ReleaseOnMismatch ==
  [][ ( /\ KeyEventStep
        /\ was_hotkey_pressed
        /\ active_mode # "none"
        /\ pressed_keys = target_hotkeys[active_mode]
        /\ pressed_keys' # target_hotkeys[active_mode] )
      => kb_events' = Append(kb_events, <<"release", active_mode>>) ]_vars

\* C16: with no key held (as after the sweep cleared a stuck key), a key
\* event that completes a hotkey combination emits the press event of its
\* mode.
C16_PressAfterSweep ==
  [][ ( /\ KeyEventStep
        /\ pressed_keys = {}
        /\ check_hotkey_match(pressed_keys') # "none" )
      => kb_events' = Append(kb_events, <<"press", check_hotkey_match(pressed_keys')>>) ]_vars

\* the fetch thread of press p ends in this step
FetchEndStep(p) == fpc[p] = "fetching" /\ fpc'[p] = "done"

\* C17: a fetch thread that ends while it is not the current fetch thread
\* (cleanup detached it, or a newer fetch was started after that) leaves
\* the snapshot unchanged; only the current fetch thread writes its result.
C17_OnlyCurrentFetchWrites ==
  [][ \A p \in Press :
        (FetchEndStep(p) /\ fetch_thread # p) => current_context' = current_context ]_vars

C17_Witness ==
  \E p \in Press : fetchEnd[p] = "ignored" /\ fetchRet[p] = "started"

\* the current fetch thread is alive (line 40)
FetchInFlight == fetch_thread # None /\ FetchAlive(fetch_thread)

C19_WaitAlwaysReturns ==
  \A p \in Press :
    /\ mpc[p] = "wait_ctx" => ENABLED M_wait_ctx(p)
    /\ mpc[p] = "join_ctx" => (wthread[p] # None /\ ENABLED M_join_ctx(p))
    /\ wret[p] \in {"none", "value", "timeout"}
    /\ mpc[p] \in {"get_ctx", "submit"} => wret[p] # "none"

C19_Witness ==
  \E p \in Press :
    /\ wret[p] = "timeout"
    /\ mpc[p] = "get_ctx"
    /\ FetchAlive(wthread[p])

\* the event loop calls stop_recording (a STOP action is taken)
StopCallStep == rpc = "get" /\ action_queue # <<>> /\ action_queue' = Tail(action_queue)
                  /\ Head(action_queue).a = "STOP"

\* what a stop_recording leaves: the stop event set, no watchdog referenced
AlreadyStopped == stop_event /\ watchdog_thread = None /\ watchdog_stop_event = None

\* C20: stop_recording on a recorder that is not recording changes nothing
\* of the recorder and returns; a stop_recording on a recording session
\* returns with the stop event set and the watchdog references cleared, and
\* a stop_recording made in that state (the second of two in a row) changes
\* nothing of the recorder and returns without an exception.
C20_StopIsIdempotent ==
  [][ /\ (StopCallStep /\ ~is_recording) => (rpc' = "get" /\ UNCHANGED recvars)
      /\ (rpc \in SWLabels /\ rpc' = "get") => AlreadyStopped'
      /\ (StopCallStep /\ is_recording /\ AlreadyStopped)
            => (rpc' = "sw1" /\ UNCHANGED recvars)
      /\ (rpc = "sw1" /\ AlreadyStopped /\ rpc' # rpc)
            => (rpc' = "get" /\ sw_next("sw1", None) = "done" /\ UNCHANGED recvars) ]_vars

C20_Witness ==
  /\ rpc = "sw1"
  /\ is_recording /\ AlreadyStopped
  /\ action_queue = <<>>
  /\ presses = 2 /\ ~held
  /\ trigRet[1] = "queued" /\ trigRet[2] = "recording"

\* process_command was called for the session of press p
Submitted(p) ==
  \/ mpc[p] = "start_thread"
  \/ tpc[p] # "none"
  \/ \E i \in DOMAIN status_queue[p] : status_queue[p][i] = "BUSY"

\* C21: the stages of a session occur in order: its transcription runs only
\* with its buffer sealed (the callback was invoked, with a non-empty
\* buffer), its context wait only after a transcript was obtained, and the
\* snapshot is read and the command submitted only after the context wait
\* has returned.
C21_StagesInOrder ==
  \A p \in Press :
    /\ (Transcribing(p) \/ mtext[p] # "none") => (cbCount[p] >= 1 /\ mbuf[p] # <<>>)
    /\ (AwaitingContext(p) \/ wret[p] # "none") => mtext[p] = "text"
    /\ (mpc[p] \in {"get_ctx", "submit"} \/ Submitted(p))
          => (wret[p] # "none" /\ mtext[p] = "text" /\ mbuf[p] # <<>>)

C21_Witness ==
  \E p \in Press :
    /\ tpc[p] = "running"
    /\ wret[p] # "none" /\ mtext[p] = "text" /\ mbuf[p] # <<>>

\* C23: a session whose context wait returned on the timeout is not ended
\* by it: the callback reads the snapshot and submits the command, with the
\* snapshot as far as it is populated (the application name; no primary
\* context while the fetch has not completed).
C23_TimeoutStillSubmits ==
  \A p \in Press :
    wret[p] = "timeout"
      => /\ mpc[p] \in {"get_ctx", "submit", "start_thread", "done"}
         /\ mpc[p] \in {"start_thread", "done"} => Submitted(p)
         /\ tpc[p] # "none" => /\ tctx[p].app_name = "App"
                                /\ FetchAlive(wthread[p]) => tctx[p].primary_context = None

C23_Witness ==
  \E p \in Press :
    /\ wret[p] = "timeout"
    /\ tpc[p] = "running"
    /\ tctx[p] = [EmptyContext EXCEPT !.app_name = "App"]

\* position of a status in the order of a successful session
StatusRank(st) ==
  CASE st = "HOTKEY_PRESSED" -> 1
    [] st = "RECORDING" -> 2
    [] st = "TRANSCRIBING" -> 3
    [] st = "TRANSCRIBED" -> 4
    [] st = "Processing successful" -> 5
    [] st = "READY" -> 6
    [] OTHER -> 0

\* C22: when a single press is made, the statuses its session puts on the
\* status channel come in the order HotkeyPressed, Recording, Transcribing,
\* Transcribed, (terminal status,) Ready.
C22_StatusOrder ==
  presses = 1 =>
    \A i, j \in DOMAIN status_queue[1] :
      (i < j /\ StatusRank(status_queue[1][i]) > 0 /\ StatusRank(status_queue[1][j]) > 0)
        => StatusRank(status_queue[1][i]) < StatusRank(status_queue[1][j])

\* the latest session whose start_recording returned True
LastSession(p) ==
  startRet[p] = "true" /\ \A q \in Press : q > p => startRet[q] # "true"

\* C24: after a release was handled while capture was active (the stop
\* event is set), the recorder leaves the recording state: once the monitor
\* of that session is past the locked region of lines 160-162, or has
\* ended, is_recording is False.
C24_ReleaseEndsRecording ==
  \A p \in Press :
    (LastSession(p) /\ stop_event /\ mpc[p] \notin {"wait", "sw2", "sw3", "lock"})
      => ~is_recording

\* no thread of the pipeline has a step left to take
Quiescent ==
  /\ hpc = "idle" /\ rpc = "get" /\ action_queue = <<>>
  /\ \A p \in Press : mpc[p] \in {"none", "done", "died"} /\ tpc[p] # "running"

\* C27: whatever exceptions the background threads met, the pipeline is not
\* left wedged: when every thread has come to rest, the recording flag and
\* the processing flag are False, so that the next press is accepted.
C27_NeverWedged ==
  Quiescent => (~is_recording /\ ~is_processing)

\* the statuses a worker thread puts when the engine call has ended
WorkerStatuses == {"Processing successful", "Error processing"}

\* how many statuses of the set S were put for press p
StatusCount(p, S) ==
  Cardinality({i \in DOMAIN status_queue[p] : status_queue[p][i] \in S})

\* C25: a worker thread that ran the engine call, whether the engine
\* returned or raised, puts exactly one terminal status ("Processing
\* successful" or "Error processing") and then, through its Timer, exactly
\* one "Ready", the terminal status first; before the engine call has ended
\* it puts neither.
C25_TerminalThenReady ==
  \A p \in Press :
    /\ tpc[p] \in {"new", "running", "cleared"}
          => StatusCount(p, WorkerStatuses \cup {"READY"}) = 0
    /\ tpc[p] = "done"
          => /\ StatusCount(p, WorkerStatuses) = 1
             /\ StatusCount(p, {FinalStatus(tres[p])}) = 1
             /\ StatusCount(p, {"READY"}) = IF timer[p] = "fired" THEN 1 ELSE 0
             /\ timer[p] \in {"pending", "fired"}
             /\ timer[p] = "fired"
                   => /\ status_queue[p][Len(status_queue[p])] = "READY"
                      /\ status_queue[p][Len(status_queue[p]) - 1] \in WorkerStatuses

C25_Witness ==
  \E p \in Press :
    /\ tpc[p] = "done" /\ tres[p] = "err" /\ timer[p] = "fired"
    /\ StatusCount(p, {"Error processing"}) = 1
    /\ StatusCount(p, {"READY"}) = 1

\* error_occurred was emitted: the signal is emitted by ApplicationManager
\* alone, for its own failures (recorded in errs); the status queue monitor
\* of lines 594-609 forwards every status to status_changed
ErrorsReported == \E s \in SupPress : errs[s] > 0

\* C26: when the engine call of a worker raised and the worker has reported
\* it, a message was emitted on the error channel (error_occurred), apart
\* from the statuses of the status channel.
C26_EngineFailureOnErrorChannel ==
  \A p \in Press : (tpc[p] = "done" /\ tres[p] = "err") => ErrorsReported

\* the step of a set_hotkeys call
SetHotkeysStep == Len(kb_sets') = Len(kb_sets) + 1

\* C28: a set_hotkeys call whose setting equals the current one changes
\* nothing of the keyboard state and returns True, also while a hotkey is
\* held; every call leaves the setting it was given as the current one, so
\* that a second call with the same setting is such a call.
C28_SameHotkeysIsNoop ==
  [][ SetHotkeysStep =>
        LET call == kb_sets'[Len(kb_sets')] IN
        /\ hotkey_strs' = call.arg
        /\ call.arg = hotkey_strs => call.ret = TRUE
        /\ call.arg = hotkey_strs
              => UNCHANGED <<target_hotkeys, hotkey_strs, pressed_keys, key_press_times,
                             was_hotkey_pressed, active_mode, kb_events, kb_repeat>>
        /\ UNCHANGED <<pressed_keys, key_press_times, was_hotkey_pressed,
                       active_mode, kb_events>> ]_vars

C28_Witness ==
  /\ Len(kb_sets) = 2
  /\ kb_sets[1].arg = kb_sets[2].arg
  /\ ~kb_sets[1].same /\ kb_sets[2].same
  /\ hotkey_strs = kb_sets[2].arg
  /\ was_hotkey_pressed /\ active_mode = "dictation"
  /\ pressed_keys = target_hotkeys.dictation

\* C29: a press accepted by trigger_interaction (neither processing nor
\* recording at the time) gets HOTKEY_PRESSED, and once the run loop has
\* handled the START queued for it, a context fetch was started for the
\* press and start_recording returned True for it.
C29_StartBeginsFetchAndCapture ==
  \A p \in Press :
    /\ trigRet[p] = "queued"
          => \E i \in DOMAIN status_queue[p] : status_queue[p][i] = "HOTKEY_PRESSED"
    /\ startRet[p] # "none"
          => (fetchRet[p] = "started" /\ startRet[p] = "true")

\* C30: the mode given to the context fetch of a session is the mode of the
\* press that started it: while trigger_interaction for the latest press is
\* between queuing START and storing its mode (hmode), a fetch already
\* started for that press was given that mode.
C30_FetchModeIsPressMode ==
  (hpc = "mode" /\ fetchRet[presses] = "started") => fmode[presses] = hmode

\* the callback of press p has read the context snapshot (line 176)
SnapshotTaken(p) == mpc[p] \in {"submit", "start_thread", "done"} /\ wret[p] # "none"

\* C31: the context snapshot read for the session of press p holds the
\* result of the fetch started at press p or no result at all, never the
\* result of the fetch of another press.
C31_SnapshotIsOwnFetch ==
  \A p \in Press :
    SnapshotTaken(p)
      => /\ mctx[p].primary_context \in {None, p}
         /\ mctx[p].page_context \in {None, p}

\* self._processing_thread exists and is alive
LiveWorker ==
  IF processing_thread = None THEN FALSE ELSE WorkerAlive(processing_thread)

\* the step in which trigger_interaction reads is_processing
ReadsIsProcessing == presses' = presses + 1

\* C32: a read of is_processing made while the flag is True and no live
\* worker thread exists resets the flag and returns False (the press is not
\* answered PROCESSING_BUSY); made while the worker is alive it returns True
\* and changes neither the flag nor the thread reference.
C32_AutoCorrect ==
  [][ (ReadsIsProcessing /\ cp_is_processing)
        => IF LiveWorker
           THEN /\ cp_is_processing' /\ processing_thread' = processing_thread
                /\ trigRet'[presses'] = "busy"
           ELSE /\ ~cp_is_processing' /\ processing_thread' = processing_thread
                /\ trigRet'[presses'] # "busy" ]_vars

C32_Witness ==
  /\ hpc = "mode" /\ presses = 2
  /\ processing_thread = 1 /\ tpc[1] = "new"
  /\ ~cp_is_processing

\* a capture session was started after the one of press p
LaterSessionStarted(p) == \E q \in Press : q > p /\ startRet[q] = "true"

\* C33: the producer of a session that was stopped takes no further loop
\* iteration: once a later session has been started (which start_recording
\* does only after the earlier one was signalled and left Recording), the
\* producer of the earlier session delivers no chunk.
C33_StoppedProducerExits ==
  [][ \A p \in Press : produced'[p] > produced[p] => ~LaterSessionStarted(p) ]_vars

\* C34: the buffer sealed for the session of press p is the in-order
\* sequence of chunks produced for press p, and of no other session.
C34_BufferIsOwnChunks ==
  \A p \in Press : \A i \in DOMAIN mbuf[p] : mbuf[p][i] = <<p, i>>

\* C35: check_hotkey_match returns a mode exactly when the hotkey triggers
\* are not paused and the complete set of held keys equals the combination
\* of that mode (of the first such mode, when both have the same one).
C35_MatchIffExactSet ==
  /\ \A m \in Modes :
       check_hotkey_match(pressed_keys) = m
         => (~is_hotkey_paused /\ pressed_keys = target_hotkeys[m])
  /\ (~is_hotkey_paused /\ \E m \in Modes : pressed_keys = target_hotkeys[m])
       => check_hotkey_match(pressed_keys) # "none"

\* C37: the hotkey_pressed and hotkey_released emissions alternate,
\* starting with a press, and each release carries the mode of the press
\* just before it, whatever key events, sweeps, pause and resume calls and
\* set_hotkeys calls were made.
C37_PressReleaseAlternate ==
  \A i \in DOMAIN kb_events :
    IF i % 2 = 1
    THEN kb_events[i][1] = "press" /\ kb_events[i][2] \in Modes
    ELSE kb_events[i] = <<"release", kb_events[i - 1][2]>>

C37_Witness ==
  /\ Len(kb_events) = 4
  /\ kb_events[2][1] = "release" /\ kb_events[4][1] = "release"
  /\ kb_events[1][2] # kb_events[3][2]
  /\ is_hotkey_paused
  /\ kb_sets # <<>>
  /\ \E k \in Keys : k \notin pressed_keys /\ key_press_times[k] = "none"
                      /\ k \in target_hotkeys.dictation

\* C40: a set_hotkeys call that returns False leaves the stored hotkey
\* strings and the target key sets as they were before the call.
C40_FailedSetChangesNothing ==
  [][ (SetHotkeysStep /\ ~kb_sets'[Len(kb_sets')].ret)
        => UNCHANGED <<hotkey_strs, target_hotkeys>> ]_vars

\* ERROR_RECORDING was put for the session of press p
ErrorRecordingPut(p) ==
  \E i \in DOMAIN status_queue[p] : status_queue[p][i] = "ERROR_RECORDING"

\* C38: a session for which the watchdog put ERROR_RECORDING does not reach
\* the transcription: its callback, once invoked, received the empty buffer.
C38_TimeoutMeansEmpty ==
  \A p \in Press :
    ErrorRecordingPut(p)
      => /\ mpc[p] # "transcribe"
         /\ cbCount[p] >= 1 => mbuf[p] = <<>>

\* the orchestrator threads whose event loop (run) is running
RunningLoops == {t \in Apps : apc[t] = "run"}

\* C36: at most one orchestrator event loop is running at a time, and when
\* stop_application has returned with nothing started since (no thread
\* reference is held and the main thread is idle), no loop is running.
C36_OneEventLoop ==
  /\ Cardinality(RunningLoops) <= 1
  /\ (spc = "idle" /\ app_thread = None) => RunningLoops = {}

\* the Timer of the worker of press p puts "Ready" in this step
ReadyDelivered(p) == timer[p] = "pending" /\ timer'[p] = "fired"

\* C39: the delayed "Ready" of a finished command is not put on the status
\* channel while a later session is recording, transcribing or dispatching.
C39_NoReadyDuringLaterSession ==
  [][ \A p \in Press :
        ReadyDelivered(p)
          => \A q \in Press :
               q > p => ~(Recording(q) \/ Transcribing(q) \/ Dispatching(q)) ]_vars

====
